---- MODULE Spec2Model ----
(***************************************************************************)
(* The lottery engine of src/shift/shift.ts (the LotteryPlugin of          *)
(* TeleBox_Plugins): the SQLite tables lottery_config,                     *)
(* lottery_participants, lottery_winners and prize_warehouse, the join     *)
(* listener handleEnhancedLotteryJoin and the `lottery` command handler.   *)
(*                                                                         *)
(* Scheduling: Node.js runs each handler to its next `await`; the          *)
(* better-sqlite3 calls are synchronous.  One action of this module is     *)
(* therefore one synchronous stretch of a handler, from the resolution of  *)
(* one await to the next await; the outcome of the awaited Telegram call   *)
(* (resolved or rejected) is an input of the action.                       *)
(***************************************************************************)
EXTENDS Integers, Sequences, FiniteSets, TLC

\* ------------------------------------------------------------------ bounds
MaxCapacity  == 1    \* largest max_participants / winner_count typed in `create`
MaxLotteryId == 1    \* lottery_config rows ever inserted (AUTOINCREMENT ids)
MaxStock     == 2    \* largest stock_count of one prize_warehouse row
MaxTick      == 1    \* steps the clock Date.now() takes
MaxWinnerRows == 2   \* rows of lottery_winners
NumHandlers  == 2    \* handlers suspended at an await at the same time
NumUsers     == 2    \* Telegram users that send the join keyword

\* ------------------------------------------------------- program constants
DAY_SECONDS == 86400         \* claim_timeout: 86400, // 24 hours

Users       == 1..NumUsers
Chats       == {"chat"}
Operators   == {"op"}        \* senders of `lottery` commands (msg.senderId)
Warehouses  == {"w1"}
PrizeTexts  == {"p1"}
\* prizeText fallback of distributePrizes (a non-ASCII literal in the source)
FallbackPrizeText == "congratulations"
PlaceholderText   == ""      \* the row createPrizeWarehouse inserts

ACTIVE    == "active"
COMPLETED == "completed"
PENDING   == "pending"       \* PrizeStatus.PENDING
SENT      == "sent"          \* PrizeStatus.SENT
EXPIRED   == "expired"       \* PrizeStatus.EXPIRED
AUTO_SEND == "auto"          \* DistributionMode.AUTO_SEND
CLAIM     == "claim"         \* DistributionMode.CLAIM
NULL      == -1              \* SQL NULL in an INTEGER column

VARIABLES
  lottery_config,        \* table: set of rows, keyed by id
  lottery_participants,  \* table: sequence of rows in insertion (joined_at) order
  lottery_winners,       \* table: sequence of rows in insertion (id) order
  prize_warehouse,       \* table: sequence of rows in insertion (id) order
  nextLotteryId,         \* AUTOINCREMENT counter of lottery_config
  clock,                 \* Date.now(), in milliseconds since the first event
  handlers,              \* the handlers suspended at an await, with their locals
  drawLog,               \* history: per lottery id, the distribution passes that
                         \* inserted winners (0, 1, or 2 for "more than one")
  drawRejected,          \* history: ids of the completed lotteries a `draw`
                         \* command was turned away from
  createRejected,        \* history: ids of the active lotteries a `create`
                         \* command was turned away for
  capacityDraws          \* history: per lottery id, the draws that join handlers
                         \* started on reaching max_participants (0, 1, or 2
                         \* for "more than one")

vars == <<lottery_config, lottery_participants, lottery_winners, prize_warehouse,
          nextLotteryId, clock, handlers, drawLog, drawRejected, createRejected, capacityDraws>>

\* ------------------------------------------------------------------- clock
Now == clock

\* --------------------------------------------------------- sequence helpers
Min2(a, b) == IF a < b THEN a ELSE b
Max2(a, b) == IF a > b THEN a ELSE b

\* ------------------------------------------------------- prize inventory
\* MAX(order_index) as it would be if the query also had `AND stock_count > 0`
MaxOrderIndexOfStocked(rows, name) ==
  LET S == {rows[i].order_index :
              i \in {j \in 1..Len(rows) : rows[j].warehouse_name = name /\ rows[j].stock_count > 0}}
  IN IF S = {} THEN 0 ELSE CHOOSE m \in S : \A x \in S : x <= m

\* `SELECT COALESCE(MAX(order_index), 0) FROM prize_warehouse WHERE warehouse_name = ?`
MaxOrderIndex(rows, name) ==
  LET S == {rows[i].order_index : i \in {j \in 1..Len(rows) : rows[j].warehouse_name = name}}
  IN IF S = {} THEN 0 ELSE CHOOSE m \in S : \A x \in S : x <= m

\* createPrizeWarehouse as it would be if the row it inserts had one unit of stock
createPrizeWarehouseStocked(rows, name) ==
  IF \E i \in 1..Len(rows) : rows[i].warehouse_name = name
  THEN rows
  ELSE Append(rows, [warehouse_name |-> name, prize_text |-> PlaceholderText,
                     stock_count |-> 1, order_index |-> 0])

\* createPrizeWarehouse(name): the table after the call
createPrizeWarehouse(rows, name) ==
  IF \E i \in 1..Len(rows) : rows[i].warehouse_name = name
  THEN rows
  ELSE Append(rows, [warehouse_name |-> name, prize_text |-> PlaceholderText,
                     stock_count |-> 0, order_index |-> 0])

\* addPrizeToWarehouse(warehouseName, prizeText, stock): the table after the call
addPrizeToWarehouse(rows, name, text, stock) ==
  LET same == {i \in 1..Len(rows) : rows[i].warehouse_name = name /\ rows[i].prize_text = text}
  IN IF same # {}
     THEN LET id == CHOOSE i \in same : \A j \in same : i <= j
          IN [rows EXCEPT ![id].stock_count = @ + stock]
     ELSE Append(rows, [warehouse_name |-> name, prize_text |-> text,
                        stock_count |-> stock,
                        order_index |-> MaxOrderIndex(rows, name) + 1])

\* getNextAvailablePrize as it would be without `AND stock_count > 0`
getNextAvailablePrizeAnyStock(rows, name) ==
  LET avail == {i \in 1..Len(rows) : rows[i].warehouse_name = name}
  IN IF avail = {} THEN 0
     ELSE CHOOSE i \in avail :
            \A j \in avail : \/ rows[i].order_index < rows[j].order_index
                             \/ (rows[i].order_index = rows[j].order_index /\ i <= j)

\* getNextAvailablePrize as it would be without `warehouse_name = ?`
getNextAvailablePrizeAnyWarehouse(rows, name) ==
  LET avail == {i \in 1..Len(rows) : rows[i].stock_count > 0}
  IN IF avail = {} THEN 0
     ELSE CHOOSE i \in avail :
            \A j \in avail : \/ rows[i].order_index < rows[j].order_index
                             \/ (rows[i].order_index = rows[j].order_index /\ i <= j)

\* getNextAvailablePrize(warehouseName): the row id (position), 0 for null
getNextAvailablePrize(rows, name) ==
  LET avail == {i \in 1..Len(rows) : rows[i].warehouse_name = name /\ rows[i].stock_count > 0}
  IN IF avail = {} THEN 0
     ELSE CHOOSE i \in avail :
            \A j \in avail : \/ rows[i].order_index < rows[j].order_index
                             \/ (rows[i].order_index = rows[j].order_index /\ i <= j)

\* consumePrize as it would be without `AND stock_count > 0` in the UPDATE
consumePrizeUnguarded(rows, prizeId) ==
  IF prizeId \in 1..Len(rows)
  THEN [rows EXCEPT ![prizeId].stock_count = @ - 1]
  ELSE rows

\* consumePrize as it would be if the UPDATE were `SET stock_count = 0`
consumePrizeWhole(rows, prizeId) ==
  IF prizeId \in 1..Len(rows) /\ rows[prizeId].stock_count > 0
  THEN [rows EXCEPT ![prizeId].stock_count = 0]
  ELSE rows

\* consumePrize(prizeId): the table after the UPDATE
consumePrize(rows, prizeId) ==
  IF prizeId \in 1..Len(rows) /\ rows[prizeId].stock_count > 0
  THEN [rows EXCEPT ![prizeId].stock_count = @ - 1]
  ELSE rows

\* result.changes > 0 of consumePrize
consumePrizeResult(rows, prizeId) ==
  prizeId \in 1..Len(rows) /\ rows[prizeId].stock_count > 0

\* clearWarehouse(warehouseName)
clearWarehouse(rows, name) == SelectSeq(rows, LAMBDA r : r.warehouse_name # name)

clearAllWarehouses(rows) == <<>>

\* getPrizeWarehouses(): SELECT DISTINCT warehouse_name
getPrizeWarehouses(rows) == {rows[i].warehouse_name : i \in 1..Len(rows)}

\* getWarehousePrizes(warehouseName): the rows with stock_count > 0
getWarehousePrizes(rows, name) ==
  {i \in 1..Len(rows) : rows[i].warehouse_name = name /\ rows[i].stock_count > 0}

\* ------------------------------------------------------- lottery registry
NoLottery == [id |-> 0, chat_id |-> "", max_participants |-> 0, winner_count |-> 0,
              distribution_mode |-> "", claim_timeout |-> 0, allow_bots |-> FALSE,
              require_avatar |-> FALSE, require_username |-> FALSE,
              required_channel |-> "",
              prize_warehouse |-> "", status |-> "", creator_id |-> ""]

\* getActiveLottery as it would be without `AND status = 'active'` in the SELECT
getLotteryOfChatAnyStatus(chatId) ==
  LET rows == {l \in lottery_config : l.chat_id = chatId}
  IN IF rows = {} THEN NoLottery
     ELSE CHOOSE l \in rows : \A k \in rows : k.id <= l.id

\* getActiveLottery(chatId): the newest active row of the chat, NoLottery for null
getActiveLottery(chatId) ==
  LET rows == {l \in lottery_config : l.chat_id = chatId /\ l.status = ACTIVE}
  IN IF rows = {} THEN NoLottery
     ELSE CHOOSE l \in rows : \A k \in rows : k.id <= l.id

\* the create guard as it would be with the `existingLottery` check left out
ExistingLotteryIgnored(chatId) == FALSE

\* `const existingLottery = getActiveLottery(chatId); if (existingLottery) ... return`
ExistingLottery(chatId) == getActiveLottery(chatId) # NoLottery

\* the config object the create subcommand builds, as createLotteryConfig stores it
LotteryRow(id, chatId, maxParticipants, winnerCount, warehouse, senderId) ==
  [id |-> id, chat_id |-> chatId, max_participants |-> maxParticipants,
   winner_count |-> winnerCount, distribution_mode |-> AUTO_SEND,
   claim_timeout |-> DAY_SECONDS, allow_bots |-> FALSE,
   require_avatar |-> FALSE, require_username |-> FALSE, required_channel |-> "",
   prize_warehouse |-> warehouse, status |-> ACTIVE, creator_id |-> senderId]

\* the UPDATE as it would be if it toggled the status instead of setting it
MarkToggled(rows, id) ==
  {IF l.id = id
   THEN [l EXCEPT !.status = IF l.status = ACTIVE THEN COMPLETED ELSE ACTIVE]
   ELSE l : l \in rows}

\* UPDATE lottery_config SET status = 'completed' WHERE id = ?
MarkCompleted(rows, id) ==
  {IF l.id = id THEN [l EXCEPT !.status = COMPLETED] ELSE l : l \in rows}

\* ---------------------------------------------------- participant ledger
\* getLotteryParticipants(lotteryId): the rows of the lottery, ORDER BY joined_at
getLotteryParticipants(rows, lotteryId) ==
  SelectSeq(rows, LAMBDA p : p.lottery_id = lotteryId)

\* the capacity check as it would be without `!lottery`: a lottery whose row is
\* gone is never full
LotteryFullOnly(rows, lotteryId) ==
  \E l \in lottery_config :
    l.id = lotteryId /\ Len(getLotteryParticipants(rows, lotteryId)) >= l.max_participants

\* `if (!lottery || currentCount >= lottery.max_participants) throw`
LotteryFullOrMissing(rows, lotteryId) ==
  LET cfg == {l \in lottery_config : l.id = lotteryId}
  IN \/ cfg = {}
     \/ \E l \in cfg : Len(getLotteryParticipants(rows, lotteryId)) >= l.max_participants

\* the duplicate check as it would be with neither the `exists` query nor the
\* UNIQUE constraint
AlreadyParticipatedIgnored(rows, lotteryId, userId) == FALSE

\* `SELECT 1 FROM lottery_participants WHERE lottery_id = ? AND user_id = ?`,
\* which the UNIQUE(lottery_id, user_id) constraint of the table repeats
AlreadyParticipated(rows, lotteryId, userId) ==
  \E i \in 1..Len(rows) : rows[i].lottery_id = lotteryId /\ rows[i].user_id = userId

\* addParticipantToLottery: TRUE when the transaction commits
addParticipantResult(rows, lotteryId, userId) ==
  /\ ~LotteryFullOrMissing(rows, lotteryId)
  /\ ~AlreadyParticipated(rows, lotteryId, userId)

\* the message of the Error thrown inside the transaction of
\* addParticipantToLottery ("" when nothing is thrown)
addParticipantError(rows, lotteryId, userId) ==
  IF LotteryFullOrMissing(rows, lotteryId) THEN "Lottery full or not found"
  ELSE IF AlreadyParticipated(rows, lotteryId, userId) THEN "User already participated"
  ELSE ""

\* the value addParticipantToLottery returns to handleEnhancedLotteryJoin:
\* `return true` after the transaction, `return false` in the catch
addParticipantReturned(rows, lotteryId, userId) ==
  IF addParticipantError(rows, lotteryId, userId) = "" THEN "true" ELSE "false"

\* addParticipantToLottery as it would be if the INSERT ran before the checks
\* and outside the transaction
addParticipantUnchecked(rows, lotteryId, userId) ==
  Append(rows, [lottery_id |-> lotteryId, user_id |-> userId])

\* addParticipantToLottery: the table after the call
addParticipantToLottery(rows, lotteryId, userId) ==
  IF addParticipantResult(rows, lotteryId, userId)
  THEN Append(rows, [lottery_id |-> lotteryId, user_id |-> userId])
  ELSE rows

\* -------------------------------------------------------- winner records
\* getLotteryWinners(lotteryId): the rows of the lottery, ORDER BY assigned_at
getLotteryWinners(rows, lotteryId) ==
  SelectSeq(rows, LAMBDA w : w.lottery_id = lotteryId)

\* the row as it would be if claim_timeout (seconds) were added to Date.now()
\* (milliseconds) without the `* 1000`
WinnerRowInSeconds(lottery, userId, prizeText, now) ==
  [lottery_id |-> lottery.id, user_id |-> userId, prize_text |-> prizeText,
   status |-> PENDING, assigned_at |-> now, claimed_at |-> NULL,
   expires_at |-> now + lottery.claim_timeout]

\* the row distributePrizes inserts for one winner
WinnerRow(lottery, userId, prizeText, now) ==
  [lottery_id |-> lottery.id, user_id |-> userId, prize_text |-> prizeText,
   status |-> PENDING, assigned_at |-> now, claimed_at |-> NULL,
   expires_at |-> now + (lottery.claim_timeout * 1000)]

\* updateWinnerStatusByUser as it would be if the UPDATE set the status alone
updateWinnerStatusOnly(rows, lotteryId, userId, status, now) ==
  [i \in 1..Len(rows) |->
     IF rows[i].lottery_id = lotteryId /\ rows[i].user_id = userId
     THEN [rows[i] EXCEPT !.status = status]
     ELSE rows[i]]

\* updateWinnerStatusByUser(lotteryId, userId, status): the table after the UPDATE
\* (claimed_at = claimedAt || Date.now()); sendPrizeToWinner runs the same UPDATE
updateWinnerStatusByUser(rows, lotteryId, userId, status, now) ==
  [i \in 1..Len(rows) |->
     IF rows[i].lottery_id = lotteryId /\ rows[i].user_id = userId
     THEN [rows[i] EXCEPT !.status = status, !.claimed_at = now]
     ELSE rows[i]]

\* result.changes > 0 of updateWinnerStatusByUser
updateWinnerStatusResult(rows, lotteryId, userId) ==
  \E i \in 1..Len(rows) : rows[i].lottery_id = lotteryId /\ rows[i].user_id = userId

\* expireOldClaims as it would be without `status = ?` in the WHERE clause
expireOldClaimsAnyStatus(rows, now) ==
  [i \in 1..Len(rows) |->
     IF rows[i].expires_at < now
     THEN [rows[i] EXCEPT !.status = EXPIRED]
     ELSE rows[i]]

\* expireOldClaims(): the table after the UPDATE
expireOldClaims(rows, now) ==
  [i \in 1..Len(rows) |->
     IF rows[i].status = PENDING /\ rows[i].expires_at < now
     THEN [rows[i] EXCEPT !.status = EXPIRED]
     ELSE rows[i]]

\* ------------------------------------------------------------ draw engine
\* Array.prototype.slice(0, end): a negative end counts from the end of the array
Slice0(s, end) ==
  LET e == IF end < 0 THEN Max2(Len(s) + end, 0) ELSE Min2(end, Len(s))
  IN SubSeq(s, 1, e)

\* the values Math.floor(Math.random() * (i + 1)) can take in each round i
ShuffleChoices(n) == {js \in [1..(n - 1) -> 0..(n - 1)] : \A i \in 1..(n - 1) : js[i] <= i}

Swap(s, a, b) == [s EXCEPT ![a] = s[b], ![b] = s[a]]

\* the Fisher-Yates loop `for (let i = length - 1; i > 0; i--)`, 0-based i and js[i]
RECURSIVE FisherYates(_, _, _)
FisherYates(s, i, js) ==
  IF i < 1 THEN s ELSE FisherYates(Swap(s, i + 1, js[i] + 1), i - 1, js)

\* `Math.min(lottery.winner_count, participants.length)`
WinnerCount(lottery, participants) == Min2(lottery.winner_count, Len(participants))

\* `shuffled.slice(0, winnerCount)`
SelectWinners(lottery, participants, js) ==
  Slice0(FisherYates(participants, Len(participants) - 1, js),
         WinnerCount(lottery, participants))

\* the transaction of distributePrizes: for each winner, next prize, INSERT, consume
RECURSIVE DistributeLoop(_, _, _, _, _, _)
DistributeLoop(lottery, winners, k, wrows, prows, now) ==
  IF k > Len(winners)
  THEN [winners |-> wrows, prizes |-> prows]
  ELSE LET prize == getNextAvailablePrize(prows, lottery.prize_warehouse)
           prizeText == IF prize # 0 THEN prows[prize].prize_text ELSE FallbackPrizeText
       IN DistributeLoop(lottery, winners, k + 1,
                         Append(wrows, WinnerRow(lottery, winners[k].user_id, prizeText, now)),
                         IF prize # 0 THEN consumePrize(prows, prize) ELSE prows,
                         now)

\* the transaction as it would be without the rollback: the rows and units of
\* the winners before the INSERT that throws stay
distributeWithoutRollback(lottery, winners, wrows, prows, now, failAt) ==
  LET done == IF failAt = 0 THEN winners ELSE SubSeq(winners, 1, failAt - 1)
      res == DistributeLoop(lottery, done, 1, wrows, prows, now)
  IN [winners |-> res.winners, prizes |-> res.prizes, failed |-> failAt # 0]

\* `transaction()` of distributePrizes: the tables after the call.  failAt is the
\* position of the winner whose INSERT throws (0: none does); better-sqlite3 then
\* rolls the transaction back and the error reaches performLotteryDraw's catch
distributeTransaction(lottery, winners, wrows, prows, now, failAt) ==
  IF failAt = 0
  THEN LET res == DistributeLoop(lottery, winners, 1, wrows, prows, now)
       IN [winners |-> res.winners, prizes |-> res.prizes, failed |-> FALSE]
  ELSE [winners |-> wrows, prizes |-> prows, failed |-> TRUE]

\* the auto-send loop: the next winner at or after position k that has a row in
\* getLotteryWinners(lottery.id); Len(winners) + 1 when there is none
RECURSIVE NextToSend(_, _, _, _)
NextToSend(wrows, lotteryId, winners, k) ==
  IF k > Len(winners) THEN k
  ELSE IF \E i \in 1..Len(wrows) :
            wrows[i].lottery_id = lotteryId /\ wrows[i].user_id = winners[k].user_id
       THEN k
       ELSE NextToSend(wrows, lotteryId, winners, k + 1)

\* --------------------------------------------------------------- handlers
Handlers == 1..NumHandlers

Idle == [pc |-> "idle", lottery |-> NoLottery, user |-> 0, winners |-> <<>>, i |-> 0,
         count |-> 0, avatar |-> "", channel |-> "", sender |-> ""]

\* a new handler takes the first free slot
Free(h) == handlers[h].pc = "idle" /\ \A g \in Handlers : g < h => handlers[g].pc # "idle"

Finish(h) == handlers' = [handlers EXCEPT ![h] = Idle]

\* ------------------------------------------------------------------- Init
\* the ids AUTOINCREMENT hands out in the runs explored
LotteryIds == 1..(MaxLotteryId + 1)

Init ==
  /\ lottery_config = {}
  /\ lottery_participants = <<>>
  /\ lottery_winners = <<>>
  /\ prize_warehouse = <<>>
  /\ nextLotteryId = 1
  /\ clock = 0
  /\ handlers = [h \in Handlers |-> Idle]
  /\ drawLog = [l \in LotteryIds |-> 0]
  /\ drawRejected = {}
  /\ createRejected = {}
  /\ capacityDraws = [l \in LotteryIds |-> 0]

\* ------------------------------------------------- prize management commands
\* `lottery prize create [name]`
PrizeCreate(name) ==
  /\ prize_warehouse' = createPrizeWarehouse(prize_warehouse, name)
  /\ prize_warehouse' # prize_warehouse
  /\ UNCHANGED <<lottery_config, lottery_participants, lottery_winners, nextLotteryId,
                 clock, handlers, drawLog, drawRejected, createRejected, capacityDraws>>

\* `lottery prize add [name] [text] [n]`: stock = parseInt(n) || 1
PrizeAdd(name, text, n) ==
  LET stock == IF n = 0 THEN 1 ELSE n
      rows == addPrizeToWarehouse(prize_warehouse, name, text, stock)
  IN /\ \A i \in 1..Len(rows) : rows[i].stock_count <= MaxStock
     /\ prize_warehouse' = rows
     /\ UNCHANGED <<lottery_config, lottery_participants, lottery_winners, nextLotteryId,
                    clock, handlers, drawLog, drawRejected, createRejected, capacityDraws>>

\* `lottery prize clear [name]`
PrizeClear(name) ==
  /\ prize_warehouse' = clearWarehouse(prize_warehouse, name)
  /\ prize_warehouse' # prize_warehouse
  /\ UNCHANGED <<lottery_config, lottery_participants, lottery_winners, nextLotteryId,
                 clock, handlers, drawLog, drawRejected, createRejected, capacityDraws>>

\* `lottery prize clear all`
PrizeClearAll ==
  /\ prize_warehouse # <<>>
  /\ prize_warehouse' = clearAllWarehouses(prize_warehouse)
  /\ UNCHANGED <<lottery_config, lottery_participants, lottery_winners, nextLotteryId,
                 clock, handlers, drawLog, drawRejected, createRejected, capacityDraws>>

\* ------------------------------------------------------------ `lottery create`
\* the synchronous stretch from the parameter checks to createLotteryConfig
CreateLottery(chatId, senderId, maxParticipants, winnerCount, warehouse, maxId) ==
  /\ nextLotteryId <= maxId
  /\ ~(winnerCount > maxParticipants)
  /\ warehouse \in getPrizeWarehouses(prize_warehouse)
  /\ getWarehousePrizes(prize_warehouse, warehouse) # {}
  /\ ~ExistingLottery(chatId)
  /\ lottery_config' = lottery_config \cup
       {LotteryRow(nextLotteryId, chatId, maxParticipants, winnerCount, warehouse, senderId)}
  /\ nextLotteryId' = nextLotteryId + 1
  /\ UNCHANGED <<lottery_participants, lottery_winners, prize_warehouse, clock, handlers,
                 drawLog, drawRejected, createRejected, capacityDraws>>

\* `lottery create` while the chat has an active lottery: the command replies
\* that a lottery is already in progress and returns before createLotteryConfig
CreateRejected(chatId, maxParticipants, winnerCount, warehouse) ==
  /\ ~(winnerCount > maxParticipants)
  /\ warehouse \in getPrizeWarehouses(prize_warehouse)
  /\ getWarehousePrizes(prize_warehouse, warehouse) # {}
  /\ ExistingLottery(chatId)
  /\ createRejected' = createRejected \cup {getActiveLottery(chatId).id}
  /\ UNCHANGED <<lottery_config, lottery_participants, lottery_winners, prize_warehouse,
                 nextLotteryId, clock, handlers, drawLog, drawRejected, capacityDraws>>

\* ------------------------------------------------- performLotteryDraw(lottery)
\* the synchronous start of performLotteryDraw in handler h: the participant
\* snapshot, the shuffle, the transaction of distributePrizes and the lookup of
\* the first winner to notify
DrawBegin(h, lottery) ==
  LET participants == getLotteryParticipants(lottery_participants, lottery.id)
  IN IF Len(participants) = 0
     THEN /\ handlers' = [handlers EXCEPT ![h] =
                 [Idle EXCEPT !.pc = "draw_empty_announce", !.lottery = lottery]]
          /\ UNCHANGED <<lottery_winners, prize_warehouse, drawLog>>
     ELSE \E js \in ShuffleChoices(Len(participants)) :
            LET winners == SelectWinners(lottery, participants, js)
            IN \E failAt \in 0..Len(winners) :
                 LET res == distributeTransaction(lottery, winners, lottery_winners,
                                                  prize_warehouse, Now, failAt)
                     first == NextToSend(res.winners, lottery.id, winners, 1)
                 IN /\ Len(res.winners) <= MaxWinnerRows
                    /\ lottery_winners' = res.winners
                    /\ prize_warehouse' = res.prizes
                    /\ drawLog' = IF Len(winners) > 0 /\ ~res.failed
                                  THEN [drawLog EXCEPT ![lottery.id] = Min2(@ + 1, 2)]
                                  ELSE drawLog
                    /\ handlers' = [handlers EXCEPT ![h] =
                         [Idle EXCEPT !.lottery = lottery, !.winners = winners,
                                      !.i = first,
                                      !.pc = IF res.failed THEN "draw_failed"
                                             ELSE IF lottery.distribution_mode = AUTO_SEND
                                                     /\ first <= Len(winners)
                                                  THEN "draw_send" ELSE "draw_announce"]]

\* the catch of performLotteryDraw after distributePrizes threw: the failure
\* message was sent (or its own failure reached the caller's catch)
DrawFailed(h) ==
  /\ handlers[h].pc = "draw_failed"
  /\ Finish(h)
  /\ UNCHANGED <<lottery_config, lottery_participants, lottery_winners, prize_warehouse,
                 nextLotteryId, clock, drawLog, drawRejected, createRejected, capacityDraws>>

\* `lottery draw`: getActiveLottery, then `await msg.edit(...)`
ManualDrawStart(h, chatId) ==
  /\ Free(h)
  /\ getActiveLottery(chatId) # NoLottery
  /\ handlers' = [handlers EXCEPT ![h] =
       [Idle EXCEPT !.pc = "draw_confirm", !.lottery = getActiveLottery(chatId)]]
  /\ UNCHANGED <<lottery_config, lottery_participants, lottery_winners, prize_warehouse,
                 nextLotteryId, clock, drawLog, drawRejected, createRejected, capacityDraws>>

\* `lottery draw` without an active lottery in the chat: the command replies
\* "no lottery in progress" and ends
ManualDrawNoActive(chatId) ==
  /\ getActiveLottery(chatId) = NoLottery
  /\ drawRejected' = drawRejected \cup
       {l.id : l \in {k \in lottery_config : k.chat_id = chatId /\ k.status = COMPLETED}}
  /\ UNCHANGED <<lottery_config, lottery_participants, lottery_winners, prize_warehouse,
                 nextLotteryId, clock, handlers, drawLog, createRejected, capacityDraws>>

\* the edit resolved (ok): performLotteryDraw(client, activeLottery); else the
\* command's catch ends the handler
ManualDrawGo(h, ok) ==
  /\ handlers[h].pc = "draw_confirm"
  /\ IF ok THEN DrawBegin(h, handlers[h].lottery)
           ELSE Finish(h) /\ UNCHANGED <<lottery_winners, prize_warehouse, drawLog>>
  /\ UNCHANGED <<lottery_config, lottery_participants, nextLotteryId, clock, drawRejected, createRejected, capacityDraws>>

\* where the handler would go after sendPrizeToWinner without its try/catch:
\* the rejection would leave the loop and reach the catch of performLotteryDraw
AfterSendPrizeUncaught(ok) == IF ok THEN "draw_ratelimit" ELSE "draw_failed"

\* where the handler goes after `await sendPrizeToWinner(...)`: the function
\* catches the rejection and returns false, which the loop ignores; next is
\* the rate-limit timer
AfterSendPrize(ok) == "draw_ratelimit"

\* sendPrizeToWinner: client.sendMessage to winners[i] resolved (ok) or threw
DrawSend(h, ok) ==
  /\ handlers[h].pc = "draw_send"
  /\ lottery_winners' =
       IF ok THEN updateWinnerStatusByUser(lottery_winners, handlers[h].lottery.id,
                     handlers[h].winners[handlers[h].i].user_id, SENT, Now)
             ELSE lottery_winners
  /\ handlers' = [handlers EXCEPT ![h].pc = AfterSendPrize(ok)]
  /\ UNCHANGED <<lottery_config, lottery_participants, prize_warehouse, nextLotteryId,
                 clock, drawLog, drawRejected, createRejected, capacityDraws>>

\* the rate-limit timer fired: the next winner that has a record, or the result
DrawRateLimit(h) ==
  LET next == NextToSend(lottery_winners, handlers[h].lottery.id, handlers[h].winners,
                         handlers[h].i + 1)
  IN /\ handlers[h].pc = "draw_ratelimit"
     /\ handlers' = [handlers EXCEPT ![h].i = next,
                       ![h].pc = IF next <= Len(handlers[h].winners)
                                 THEN "draw_send" ELSE "draw_announce"]
     /\ UNCHANGED <<lottery_config, lottery_participants, lottery_winners,
                    prize_warehouse, nextLotteryId, clock, drawLog, drawRejected, createRejected, capacityDraws>>

\* the result message was sent (ok): `await client.pinMessage(...)`; or
\* sendMessage threw and the catch reports the failure
DrawAnnounce(h, ok) ==
  /\ handlers[h].pc = "draw_announce"
  /\ IF ok THEN handlers' = [handlers EXCEPT ![h].pc = "draw_pin"] ELSE Finish(h)
  /\ UNCHANGED <<lottery_config, lottery_participants, lottery_winners, prize_warehouse,
                 nextLotteryId, clock, drawLog, drawRejected, createRejected, capacityDraws>>

\* pinMessage resolved or its failure was caught: the lottery is marked completed
DrawPin(h) ==
  /\ handlers[h].pc = "draw_pin"
  /\ lottery_config' = MarkCompleted(lottery_config, handlers[h].lottery.id)
  /\ Finish(h)
  /\ UNCHANGED <<lottery_participants, lottery_winners, prize_warehouse, nextLotteryId,
                 clock, drawLog, drawRejected, createRejected, capacityDraws>>

\* the "nobody joined" message was sent (ok) and the lottery is marked completed;
\* or sendMessage threw and the catch reports failure
DrawEmptyAnnounce(h, ok) ==
  /\ handlers[h].pc = "draw_empty_announce"
  /\ lottery_config' = IF ok THEN MarkCompleted(lottery_config, handlers[h].lottery.id)
                             ELSE lottery_config
  /\ Finish(h)
  /\ UNCHANGED <<lottery_participants, lottery_winners, prize_warehouse, nextLotteryId,
                 clock, drawLog, drawRejected, createRejected, capacityDraws>>

\* ------------------------------------------------ handleEnhancedLotteryJoin
\* Telegram users by what msg.getSender() returns for them: the users of Users
\* are people with a username; one more user is a bot, one more has no username
BotUser      == NumUsers + 1
NamelessUser == NumUsers + 2
SenderIsBot(userId)       == userId = BotUser
SenderHasUsername(userId) == userId # NamelessUser

\* what the awaited lookups of validateUserConditions come to:
\* getEntityWithHash throws, or returns an entity with or without a photo;
\* getEntity / channels.GetParticipant throws (which is also how Telegram
\* answers for a user who is not in the channel), or returns a participant or
\* nothing
AvatarLookups  == {"throws", "photo", "no_photo"}
ChannelLookups == {"throws", "member", "none"}

\* validateUserConditions as it would be if the catch around the channel lookup
\* returned valid, as the outer catch does
validateUserConditionsChannelOpen(userId, lottery, avatar, channel) ==
  IF ~lottery.allow_bots /\ SenderIsBot(userId) THEN FALSE
  ELSE IF lottery.require_avatar /\ avatar = "throws" THEN TRUE
  ELSE IF lottery.require_avatar /\ avatar = "no_photo" THEN FALSE
  ELSE IF lottery.require_username /\ ~SenderHasUsername(userId) THEN FALSE
  ELSE IF lottery.required_channel # "" /\ channel = "none" THEN FALSE
  ELSE TRUE

\* validateUserConditions(client, user, lottery, chatId): `valid` of the result.
\* A throw of the avatar lookup reaches the outer catch, which returns valid;
\* a throw of the channel lookup is caught by the inner catch, which returns
\* invalid
validateUserConditions(userId, lottery, avatar, channel) ==
  IF ~lottery.allow_bots /\ SenderIsBot(userId) THEN FALSE
  ELSE IF lottery.require_avatar /\ avatar = "throws" THEN TRUE
  ELSE IF lottery.require_avatar /\ avatar = "no_photo" THEN FALSE
  ELSE IF lottery.require_username /\ ~SenderHasUsername(userId) THEN FALSE
  ELSE IF lottery.required_channel # "" /\ channel # "member" THEN FALSE
  ELSE TRUE

\* the keyword arrives: getActiveLottery(chatId), then `await msg.getSender()`
JoinStart(h, chatId, userId) ==
  /\ Free(h)
  /\ getActiveLottery(chatId) # NoLottery
  /\ handlers' = [handlers EXCEPT ![h] =
       [Idle EXCEPT !.pc = "join_sender", !.lottery = getActiveLottery(chatId),
                    !.user = userId]]
  /\ UNCHANGED <<lottery_config, lottery_participants, lottery_winners, prize_warehouse,
                 nextLotteryId, clock, drawLog, drawRejected, createRejected, capacityDraws>>

\* getSender resolved; ok: a sender that is no bot.  The handler's own duplicate
\* check, then `await validateUserConditions(...)`
JoinSender(h, ok) ==
  LET participants == getLotteryParticipants(lottery_participants, handlers[h].lottery.id)
      alreadyParticipated ==
        \E i \in 1..Len(participants) : participants[i].user_id = handlers[h].user
  IN /\ handlers[h].pc = "join_sender"
     /\ IF ok /\ ~SenderIsBot(handlers[h].user) /\ ~alreadyParticipated
        THEN handlers' = [handlers EXCEPT ![h].pc = "join_validate"]
        ELSE Finish(h)
     /\ UNCHANGED <<lottery_config, lottery_participants, lottery_winners,
                    prize_warehouse, nextLotteryId, clock, drawLog, drawRejected, createRejected, capacityDraws>>

\* `if (!added) return;` as it would be without the check
AdmissionCommittedIgnored(added) == TRUE

\* `const added = addParticipantToLottery(...); if (!added) return;`
AdmissionCommitted(added) == added

\* `if (currentCount >= activeLottery.max_participants)`
CapacityReached(count, lottery) == count >= lottery.max_participants

\* the validation resolved, its lookups having come to `avatar` and `channel`:
\* invalid, `await msg.delete()`; valid, addParticipantToLottery, the new count
\* and `await msg.reply`
JoinValidateWith(h, avatar, channel) ==
  LET lottery == handlers[h].lottery
      valid == validateUserConditions(handlers[h].user, lottery, avatar, channel)
      added == valid /\ addParticipantResult(lottery_participants, lottery.id, handlers[h].user)
      rows == IF valid
              THEN addParticipantToLottery(lottery_participants, lottery.id, handlers[h].user)
              ELSE lottery_participants
  IN /\ handlers[h].pc = "join_validate"
     /\ lottery_participants' = rows
     /\ IF ~valid
        THEN handlers' = [handlers EXCEPT ![h].pc = "join_invalid",
                            ![h].avatar = avatar, ![h].channel = channel]
        ELSE IF AdmissionCommitted(added)
        THEN handlers' = [handlers EXCEPT ![h].pc = "join_reply",
                            ![h].avatar = avatar, ![h].channel = channel,
                            ![h].count = Len(getLotteryParticipants(rows, lottery.id))]
        ELSE Finish(h)
     /\ UNCHANGED <<lottery_config, lottery_winners, prize_warehouse, nextLotteryId,
                    clock, drawLog, drawRejected, createRejected, capacityDraws>>

\* the validation of a lottery that `create` stored: require_avatar,
\* require_username and required_channel are false/null, no lookup is made
JoinValidate(h) == JoinValidateWith(h, "photo", "member")

\* `await msg.delete()` of the invalid participation resolved or was caught
JoinInvalid(h) ==
  /\ handlers[h].pc = "join_invalid"
  /\ Finish(h)
  /\ UNCHANGED <<lottery_config, lottery_participants, lottery_winners, prize_warehouse,
                 nextLotteryId, clock, drawLog, drawRejected, createRejected, capacityDraws>>

\* the confirmation was sent or its failure caught:
\* `if (currentCount >= activeLottery.max_participants) await performLotteryDraw(...)`
JoinReply(h) ==
  /\ handlers[h].pc = "join_reply"
  /\ IF CapacityReached(handlers[h].count, handlers[h].lottery)
     THEN /\ DrawBegin(h, handlers[h].lottery)
          /\ capacityDraws' =
               [capacityDraws EXCEPT ![handlers[h].lottery.id] = Min2(@ + 1, 2)]
     ELSE /\ Finish(h)
          /\ UNCHANGED <<lottery_winners, prize_warehouse, drawLog, capacityDraws>>
  /\ UNCHANGED <<lottery_config, lottery_participants, nextLotteryId, clock, drawRejected,
                 createRejected>>

\* ------------------------------------------------------------ `lottery delete`
\* the creator check as it would be if it were removed ("can be removed for
\* force delete")
isCreatorAnySender(senderId, lottery) == TRUE

\* `const isCreator = String(msg.senderId) === activeLottery.creator_id`
isCreator(senderId, lottery) == senderId = lottery.creator_id

\* getActiveLottery and the creator check, then `await msg.edit(...)`
DeleteStart(h, chatId, senderId) ==
  /\ Free(h)
  /\ getActiveLottery(chatId) # NoLottery
  /\ isCreator(senderId, getActiveLottery(chatId))
  /\ handlers' = [handlers EXCEPT ![h] =
       [Idle EXCEPT !.pc = "delete_confirm", !.lottery = getActiveLottery(chatId),
                    !.sender = senderId]]
  /\ UNCHANGED <<lottery_config, lottery_participants, lottery_winners, prize_warehouse,
                 nextLotteryId, clock, drawLog, drawRejected, createRejected, capacityDraws>>

\* deleteLotteryActivity as it would be if the DELETEs of the participants and
\* of the winners had no `WHERE lottery_id = ?`
deleteLotteryActivityUnscoped(lotteryId) ==
  /\ lottery_participants' = <<>>
  /\ lottery_winners' = <<>>
  /\ lottery_config' = {l \in lottery_config : l.id # lotteryId}

\* deleteLotteryActivity as it would be without the `DELETE FROM lottery_config`:
\* the lottery is emptied and its row stays
deleteLotteryActivityKeepingConfig(lotteryId) ==
  /\ lottery_participants' =
       SelectSeq(lottery_participants, LAMBDA p : p.lottery_id # lotteryId)
  /\ lottery_winners' = SelectSeq(lottery_winners, LAMBDA w : w.lottery_id # lotteryId)
  /\ lottery_config' = lottery_config

\* deleteLotteryActivity(lotteryId): the three DELETEs of the transaction
deleteLotteryActivity(lotteryId) ==
  /\ lottery_participants' =
       SelectSeq(lottery_participants, LAMBDA p : p.lottery_id # lotteryId)
  /\ lottery_winners' = SelectSeq(lottery_winners, LAMBDA w : w.lottery_id # lotteryId)
  /\ lottery_config' = {l \in lottery_config : l.id # lotteryId}

\* `lottery delete` with no active lottery in the chat, or from a sender that
\* is not the creator: the command awaits the edit that says so, and returns
DeleteDenied(h, chatId, senderId) ==
  /\ Free(h)
  /\ \/ getActiveLottery(chatId) = NoLottery
     \/ ~isCreator(senderId, getActiveLottery(chatId))
  /\ handlers' = [handlers EXCEPT ![h] =
       [Idle EXCEPT !.pc = "delete_denied", !.lottery = getActiveLottery(chatId),
                    !.sender = senderId]]
  /\ UNCHANGED <<lottery_config, lottery_participants, lottery_winners, prize_warehouse,
                 nextLotteryId, clock, drawLog, drawRejected, createRejected, capacityDraws>>

\* the edit of the refusal settled: the command returns
DeleteDeniedReply(h) ==
  /\ handlers[h].pc = "delete_denied"
  /\ Finish(h)
  /\ UNCHANGED <<lottery_config, lottery_participants, lottery_winners, prize_warehouse,
                 nextLotteryId, clock, drawLog, drawRejected, createRejected, capacityDraws>>

\* the edit resolved (ok): deleteLotteryActivity(activeLottery.id)
DeleteGo(h, ok) ==
  /\ handlers[h].pc = "delete_confirm"
  /\ IF ok THEN deleteLotteryActivity(handlers[h].lottery.id)
           ELSE UNCHANGED <<lottery_participants, lottery_winners, lottery_config>>
  /\ Finish(h)
  /\ UNCHANGED <<prize_warehouse, nextLotteryId, clock, drawLog, drawRejected, createRejected, capacityDraws>>

\* ------------------------------------------------------------- `lottery claim`
\* `lottery claim [user id]`: getActiveLottery, then `await msg.edit(...)`
ClaimStart(h, chatId, targetUserId) ==
  /\ Free(h)
  /\ getActiveLottery(chatId) # NoLottery
  /\ handlers' = [handlers EXCEPT ![h] =
       [Idle EXCEPT !.pc = "claim_confirm", !.lottery = getActiveLottery(chatId),
                    !.user = targetUserId]]
  /\ UNCHANGED <<lottery_config, lottery_participants, lottery_winners, prize_warehouse,
                 nextLotteryId, clock, drawLog, drawRejected, createRejected, capacityDraws>>

\* the edit resolved (ok): updateWinnerStatusByUser(id, target, PrizeStatus.SENT)
ClaimGo(h, ok) ==
  /\ handlers[h].pc = "claim_confirm"
  /\ lottery_winners' =
       IF ok THEN updateWinnerStatusByUser(lottery_winners, handlers[h].lottery.id,
                                           handlers[h].user, SENT, Now)
             ELSE lottery_winners
  /\ Finish(h)
  /\ UNCHANGED <<lottery_config, lottery_participants, prize_warehouse, nextLotteryId,
                 clock, drawLog, drawRejected, createRejected, capacityDraws>>

\* ----------------------------------------- `lottery expire`, `winners`, `init`
\* `lottery expire`: with an active lottery in the chat, expireOldClaims()
ExpireCmd(chatId) ==
  /\ getActiveLottery(chatId) # NoLottery
  /\ lottery_winners' = expireOldClaims(lottery_winners, Now)
  /\ UNCHANGED <<lottery_config, lottery_participants, prize_warehouse, nextLotteryId,
                 clock, handlers, drawLog, drawRejected, createRejected, capacityDraws>>

\* `lottery winners`: with an active lottery that has winners, expireOldClaims()
WinnersCmd(chatId) ==
  /\ getActiveLottery(chatId) # NoLottery
  /\ Len(getLotteryWinners(lottery_winners, getActiveLottery(chatId).id)) # 0
  /\ lottery_winners' = expireOldClaims(lottery_winners, Now)
  /\ UNCHANGED <<lottery_config, lottery_participants, prize_warehouse, nextLotteryId,
                 clock, handlers, drawLog, drawRejected, createRejected, capacityDraws>>

\* `lottery init`: DROP TABLE lottery_winners and CREATE it again
InitCmd ==
  /\ lottery_winners # <<>>
  /\ lottery_winners' = <<>>
  /\ UNCHANGED <<lottery_config, lottery_participants, prize_warehouse, nextLotteryId,
                 clock, handlers, drawLog, drawRejected, createRejected, capacityDraws>>

\* time passes: Date.now() advances by `step` milliseconds.  A step is a day
\* long, and no Telegram call stays pending that long (the client gives up on a
\* request first), so the clock steps while no handler is suspended
Tick(step, maxTicks) ==
  /\ clock + step <= maxTicks * step
  /\ \A h \in Handlers : handlers[h].pc = "idle"
  /\ clock' = clock + step
  /\ UNCHANGED <<lottery_config, lottery_participants, lottery_winners, prize_warehouse,
                 nextLotteryId, handlers, drawLog, drawRejected, createRejected, capacityDraws>>

\* ------------------------------------------------------------------- Next
\* one clock step: just past the claim timeout of `create` (24 hours and 1 ms)
ClockStep == DAY_SECONDS * 1000 + 1

\* the numbers typed for [max participants] and [winner count] in `create`
Capacities == (0 - 1)..MaxCapacity

\* the next-state relation over the given inputs: the handler slots in use, the
\* users that send the keyword, the numbers typed in `create`, warehouse names,
\* prize texts, and the bounds on lottery ids and clock steps
NextOver(hs, users, maxPs, winCs, whs, texts, maxId, maxTicks) ==
  \/ \E w \in whs : PrizeCreate(w)
  \/ \E w \in whs, t \in texts, n \in 0..MaxStock : PrizeAdd(w, t, n)
  \/ \E w \in whs : PrizeClear(w)
  \/ PrizeClearAll
  \/ \E c \in Chats, o \in Operators, m \in maxPs, k \in winCs, w \in whs :
        CreateLottery(c, o, m, k, w, maxId)
  \/ \E c \in Chats, m \in maxPs, k \in winCs, w \in whs : CreateRejected(c, m, k, w)
  \/ \E h \in hs, c \in Chats, u \in users : JoinStart(h, c, u)
  \/ \E h \in hs, ok \in BOOLEAN : JoinSender(h, ok)
  \/ \E h \in hs : JoinValidate(h)
  \/ \E h \in hs : JoinReply(h)
  \/ \E h \in hs, c \in Chats : ManualDrawStart(h, c)
  \/ \E c \in Chats : ManualDrawNoActive(c)
  \/ \E h \in hs, ok \in BOOLEAN : ManualDrawGo(h, ok)
  \/ \E h \in hs, ok \in BOOLEAN : DrawSend(h, ok)
  \/ \E h \in hs : DrawRateLimit(h)
  \/ \E h \in hs, ok \in BOOLEAN : DrawAnnounce(h, ok)
  \/ \E h \in hs : DrawPin(h)
  \/ \E h \in hs : DrawFailed(h)
  \/ \E h \in hs, ok \in BOOLEAN : DrawEmptyAnnounce(h, ok)
  \/ \E h \in hs, c \in Chats, o \in Operators : DeleteStart(h, c, o)
  \/ \E h \in hs, ok \in BOOLEAN : DeleteGo(h, ok)
  \/ \E h \in hs, c \in Chats, u \in users : ClaimStart(h, c, u)
  \/ \E h \in hs, ok \in BOOLEAN : ClaimGo(h, ok)
  \/ \E c \in Chats : ExpireCmd(c)
  \/ \E c \in Chats : WinnersCmd(c)
  \/ InitCmd
  \/ Tick(ClockStep, maxTicks)

\* the program with every input at its smallest interesting range
Next == NextOver(Handlers, Users, Capacities, Capacities, Warehouses, PrizeTexts, MaxLotteryId, MaxTick)

Spec == Init /\ [][Next]_vars

\* the program with one handler at a time, one keyword sender and one shape of
\* lottery, and one more `create` than Spec allows: lotteries that follow one
\* another in a chat
NextRegistry ==
  NextOver({1}, {1}, {MaxCapacity}, {MaxCapacity}, Warehouses, PrizeTexts, MaxLotteryId + 1,
           MaxTick)

SpecRegistry == Init /\ [][NextRegistry]_vars

\* the program with one keyword sender and lotteries that have room for one
\* participant more than Spec's: a second admission of the user is not turned
\* away by the capacity check
NextAdmission ==
  NextOver(Handlers, {1}, {MaxCapacity + 1}, {MaxCapacity}, Warehouses, PrizeTexts, MaxLotteryId,
           MaxTick)

SpecAdmission == Init /\ [][NextAdmission]_vars

\* the program with one handler at a time and lotteries of two participants
\* that are both drawn: a distribution pass over more than one winner
NextDistribution ==
  NextOver({1}, Users, {MaxCapacity + 1}, {MaxCapacity + 1}, Warehouses, PrizeTexts,
           MaxLotteryId, MaxTick)

SpecDistribution == Init /\ [][NextDistribution]_vars

\* the program with one handler at a time, one keyword sender and a warehouse of
\* two items, one of which an operator named with the very text distributePrizes
\* falls back to
NextItems ==
  NextOver({1}, {1}, {MaxCapacity}, {MaxCapacity}, Warehouses,
           PrizeTexts \cup {FallbackPrizeText}, MaxLotteryId, MaxTick)

SpecItems == Init /\ [][NextItems]_vars

\* the senders of `lottery delete`: the creator of every lottery and one other
Senders == Operators \cup {"other"}

\* the program with one handler at a time and one keyword sender, where
\* `lottery delete` also comes from a sender that did not create the lottery
NextDeletion ==
  \/ NextOver({1}, {1}, {MaxCapacity}, {MaxCapacity}, Warehouses, PrizeTexts, MaxLotteryId,
              MaxTick)
  \/ \E c \in Chats, s \in Senders : DeleteStart(1, c, s)
  \/ \E c \in Chats, s \in Senders : DeleteDenied(1, c, s)
  \/ DeleteDeniedReply(1)

SpecDeletion == Init /\ [][NextDeletion]_vars

\* createLotteryConfig(config) for a config with any eligibility settings (the
\* columns allow_bots, require_avatar, require_username, required_channel):
\* the INSERT, with room for one participant more than Spec's lotteries
createLotteryConfig(chatId, allowBots, requireAvatar, requireUsername, requiredChannel, maxId) ==
  /\ nextLotteryId <= maxId
  /\ lottery_config' = lottery_config \cup
       {[LotteryRow(nextLotteryId, chatId, MaxCapacity + 1, MaxCapacity, "w1", "op")
           EXCEPT !.allow_bots = allowBots, !.require_avatar = requireAvatar,
                  !.require_username = requireUsername,
                  !.required_channel = requiredChannel]}
  /\ nextLotteryId' = nextLotteryId + 1
  /\ UNCHANGED <<lottery_participants, lottery_winners, prize_warehouse, clock, handlers,
                 drawLog, drawRejected, createRejected, capacityDraws>>

\* the join listener on lotteries with any eligibility settings, for senders
\* that are people, a bot, or a person without username, msg.getSender()
\* resolving to the sender, one handler at a time
EligibilityUsers == Users \cup {BotUser, NamelessUser}

NextEligibility ==
  \/ \E c \in Chats, b, a, u \in BOOLEAN, ch \in {"", "@channel"} :
        createLotteryConfig(c, b, a, u, ch, MaxLotteryId)
  \/ \E c \in Chats, u \in EligibilityUsers : JoinStart(1, c, u)
  \/ JoinSender(1, TRUE)
  \/ \E a \in AvatarLookups, ch \in ChannelLookups : JoinValidateWith(1, a, ch)
  \/ JoinInvalid(1)
  \/ JoinReply(1)
  \/ \E ok \in BOOLEAN : DrawSend(1, ok)
  \/ DrawRateLimit(1)
  \/ \E ok \in BOOLEAN : DrawAnnounce(1, ok)
  \/ DrawPin(1)
  \/ DrawFailed(1)

SpecEligibility == Init /\ [][NextEligibility]_vars

\* handler h resumes from the await it is suspended at, whatever the outcome of
\* the awaited call
Resume(h) ==
  \/ \E ok \in BOOLEAN : JoinSender(h, ok)
  \/ JoinValidate(h)
  \/ JoinReply(h)
  \/ \E ok \in BOOLEAN : ManualDrawGo(h, ok)
  \/ \E ok \in BOOLEAN : DrawSend(h, ok)
  \/ DrawRateLimit(h)
  \/ \E ok \in BOOLEAN : DrawAnnounce(h, ok)
  \/ DrawPin(h)
  \/ DrawFailed(h)
  \/ \E ok \in BOOLEAN : DrawEmptyAnnounce(h, ok)
  \/ \E ok \in BOOLEAN : DeleteGo(h, ok)
  \/ \E ok \in BOOLEAN : ClaimGo(h, ok)

\* the program with one handler at a time and one keyword sender, under the
\* scheduling of the event loop: every awaited Telegram call settles (resolves
\* or rejects) and the handler that awaits it then runs to its next await
NextScheduled ==
  NextOver({1}, {1}, {MaxCapacity}, {MaxCapacity}, Warehouses, PrizeTexts, MaxLotteryId, MaxTick)

SpecScheduled ==
  Init /\ [][NextScheduled]_vars /\ \A h \in Handlers : WF_vars(Resume(h))

\* consumePrize(prizeId) called on its own, on the id of a row or on an id that
\* no row has
ConsumePrize(prizeId) ==
  /\ prize_warehouse' = consumePrize(prize_warehouse, prizeId)
  /\ UNCHANGED <<lottery_config, lottery_participants, lottery_winners, nextLotteryId,
                 clock, handlers, drawLog, drawRejected, createRejected, capacityDraws>>

\* the program, with consumePrize also called outside distributePrizes
NextInventory ==
  \/ Next
  \/ \E id \in 1..(Len(prize_warehouse) + 1) : ConsumePrize(id)

SpecInventory == Init /\ [][NextInventory]_vars

\* the prize management commands and consumePrize on two warehouses of two
\* items each: the tables getNextAvailablePrize is called on
SelectionWarehouses == {"w1", "w2"}
SelectionTexts      == {"p1", "p2"}

NextSelection ==
  \/ \E w \in SelectionWarehouses : PrizeCreate(w)
  \/ \E w \in SelectionWarehouses, t \in SelectionTexts, n \in 0..MaxStock : PrizeAdd(w, t, n)
  \/ \E w \in SelectionWarehouses : PrizeClear(w)
  \/ PrizeClearAll
  \/ \E id \in 1..(Len(prize_warehouse) + 1) : ConsumePrize(id)

SpecSelection == Init /\ [][NextSelection]_vars

\* the prize commands over two warehouses that hold an item of the same text,
\* `create` bound to either warehouse, and one keyword sender whose admission
\* fills the lottery and draws it: a lottery bound to one warehouse while the
\* other has stock
NextBinding ==
  \/ \E w \in SelectionWarehouses : PrizeCreate(w)
  \/ \E w \in SelectionWarehouses, t \in PrizeTexts, n \in 0..MaxStock : PrizeAdd(w, t, n)
  \/ \E w \in SelectionWarehouses : PrizeClear(w)
  \/ PrizeClearAll
  \/ \E c \in Chats, o \in Operators, w \in SelectionWarehouses :
        CreateLottery(c, o, MaxCapacity, MaxCapacity, w, MaxLotteryId)
  \/ \E c \in Chats : JoinStart(1, c, 1)
  \/ \E ok \in BOOLEAN : JoinSender(1, ok)
  \/ JoinValidate(1)
  \/ JoinReply(1)
  \/ \E ok \in BOOLEAN : DrawSend(1, ok)
  \/ DrawRateLimit(1)
  \/ \E ok \in BOOLEAN : DrawAnnounce(1, ok)
  \/ DrawPin(1)
  \/ DrawFailed(1)

SpecBinding == Init /\ [][NextBinding]_vars

\* ================================================================= claims
WinnersOf(rows, lotteryId) == getLotteryWinners(rows, lotteryId)
ParticipantCount(lotteryId) == Len(getLotteryParticipants(lottery_participants, lotteryId))
TotalStock(rows) ==
  LET RECURSIVE Sum(_)
      Sum(i) == IF i = 0 THEN 0 ELSE rows[i].stock_count + Sum(i - 1)
  IN Sum(Len(rows))

\* a step in which handler h runs the start of performLotteryDraw on a
\* non-empty participant snapshot (the shuffle and the distribution pass)
DrawStep(h) ==
  /\ handlers[h].pc \in {"join_reply", "draw_confirm"}
  /\ handlers'[h].pc \in {"draw_send", "draw_announce"}

\* no handler holds the lottery in its locals
Quiescent(id) == \A h \in Handlers : handlers[h].lottery.id # id

\* C1: in every reachable state the number of Participant rows of each lottery is
\* at most the lottery's maxParticipants.
CapacityInvariant ==
  \A l \in lottery_config : ParticipantCount(l.id) <= l.max_participants

\* C2: for every lottery at most one draw selects winners and creates
\* WinnerRecords; every other attempt creates no records.
SingleDrawInvariant == \A id \in LotteryIds : drawLog[id] <= 1

\* C3: in every reachable state every prize row has stock_count >= 0, also when
\* consumePrize is called on its own between the prize commands and the draws;
\* consumePrize on a row with stock 0 (or on no row) changes nothing and reports
\* failure, and on a row with stock > 0 takes exactly 1 from that row, leaves the
\* other rows alone and reports success.
StockNonNegative ==
  /\ \A i \in 1..Len(prize_warehouse) : prize_warehouse[i].stock_count >= 0
  /\ \A id \in 1..(Len(prize_warehouse) + 1) :
       LET after == consumePrize(prize_warehouse, id)
       IN IF id <= Len(prize_warehouse) /\ prize_warehouse[id].stock_count > 0
          THEN /\ consumePrizeResult(prize_warehouse, id)
               /\ Len(after) = Len(prize_warehouse)
               /\ after[id].stock_count = prize_warehouse[id].stock_count - 1
               /\ \A j \in 1..Len(after) :
                    j # id => after[j] = prize_warehouse[j]
               /\ [after EXCEPT ![id].stock_count = 0] =
                    [prize_warehouse EXCEPT ![id].stock_count = 0]
          ELSE /\ ~consumePrizeResult(prize_warehouse, id)
               /\ after = prize_warehouse

\* a prize row that was consumed down to stock 0, next to no winner record: the
\* unit was taken by a call of consumePrize on its own, or its winner is gone
StockNonNegativeWitness ==
  /\ lottery_winners = <<>>
  /\ lottery_config = {}
  /\ \E i \in 1..Len(prize_warehouse) :
       /\ prize_warehouse[i].prize_text # PlaceholderText
       /\ prize_warehouse[i].stock_count = 0

\* C4: in every reachable state each chat has at most one active lottery, and a
\* `create` that finds an active lottery in the chat inserts nothing.
ActiveOf(rows, chatId) == {l \in rows : l.chat_id = chatId /\ l.status = ACTIVE}

OneActiveLotteryPerChat ==
  /\ [](\A c \in Chats : Cardinality(ActiveOf(lottery_config, c)) <= 1)
  /\ [][createRejected' # createRejected =>
          /\ lottery_config' = lottery_config
          /\ nextLotteryId' = nextLotteryId]_vars

\* the chat's second lottery is active after its first was completed, and a
\* `create` was turned away while the second was active
OneActiveLotteryPerChatWitness ==
  \E l1, l2 \in lottery_config :
    /\ l1.chat_id = l2.chat_id
    /\ l1.status = COMPLETED
    /\ l2.status = ACTIVE
    /\ l2.id \in createRejected

\* C5: in every reachable state no two Participant rows share (lotteryId, userId),
\* and a handler that reaches addParticipantToLottery for a user who already is a
\* participant of the lottery leaves the table unchanged and ends.
ParticipantsUnique ==
  /\ [](\A i, j \in 1..Len(lottery_participants) :
          lottery_participants[i] = lottery_participants[j] => i = j)
  /\ [][\A h \in Handlers :
          (/\ handlers[h].pc = "join_validate"
           /\ handlers'[h].pc # "join_validate"
           /\ \E i \in 1..Len(lottery_participants) :
                /\ lottery_participants[i].lottery_id = handlers[h].lottery.id
                /\ lottery_participants[i].user_id = handlers[h].user)
          => /\ lottery_participants' = lottery_participants
             /\ handlers'[h].pc = "idle"]_vars

\* two handlers admit the same user concurrently: the first has inserted the
\* row, the lottery has room for one more, and the second is about to call
\* addParticipantToLottery
ParticipantsUniqueWitness ==
  \E h \in Handlers, l \in lottery_config :
    /\ handlers[h].pc = "join_validate"
    /\ handlers[h].lottery.id = l.id
    /\ ParticipantCount(l.id) < l.max_participants
    /\ \E i \in 1..Len(lottery_participants) :
         /\ lottery_participants[i].lottery_id = l.id
         /\ lottery_participants[i].user_id = handlers[h].user

\* C6: WinnerRecord status is one-directional: a record that is sent stays sent
\* and a record that is expired stays expired, as long as the record exists.
WinnerStatusOneWay ==
  [][Len(lottery_winners') >= Len(lottery_winners) =>
       \A i \in 1..Len(lottery_winners) :
         lottery_winners[i].status \in {SENT, EXPIRED} =>
           lottery_winners'[i].status = lottery_winners[i].status]_vars

\* C7: in every reachable state there is at most one WinnerRecord per
\* (lotteryId, userId).
WinnerRecordUnique ==
  \A i, j \in 1..Len(lottery_winners) :
    (/\ lottery_winners[i].lottery_id = lottery_winners[j].lottery_id
     /\ lottery_winners[i].user_id = lottery_winners[j].user_id) => i = j

\* C8: a draw over n >= 1 participants with stored winnerCount w creates exactly
\* k = min(w, n) WinnerRecords, 0 <= k <= n, for k pairwise distinct users that
\* are participants of the lottery in the draw's snapshot.
DrawSelectsMinWinners ==
  [][\A h \in Handlers : DrawStep(h) =>
       LET lottery == handlers[h].lottery
           n == ParticipantCount(lottery.id)
           k == Min2(lottery.winner_count, n)
           created == SubSeq(lottery_winners', Len(lottery_winners) + 1,
                             Len(lottery_winners'))
       IN /\ 0 <= k /\ k <= n
          /\ Len(created) = k
          /\ \A i, j \in 1..Len(created) :
               created[i].user_id = created[j].user_id => i = j
          /\ \A i \in 1..Len(created) :
               /\ created[i].lottery_id = lottery.id
               /\ AlreadyParticipated(lottery_participants, lottery.id,
                                      created[i].user_id)]_vars

EmptyDrawCompletes ==
  [][\A h \in Handlers :
       (handlers[h].pc = "draw_empty_announce" /\ handlers'[h].pc = "idle") =>
         /\ \A l \in lottery_config' :
              l.id = handlers[h].lottery.id => l.status = COMPLETED
         /\ lottery_winners' = lottery_winners
         /\ prize_warehouse' = prize_warehouse]_vars

\* the units in stock in a warehouse, and the texts of its rows that have stock
WarehouseStock(rows, name) ==
  LET RECURSIVE Sum(_)
      Sum(i) == IF i = 0 THEN 0
                ELSE (IF rows[i].warehouse_name = name THEN rows[i].stock_count ELSE 0)
                     + Sum(i - 1)
  IN Sum(Len(rows))

StockedTexts(rows, name) ==
  {rows[i].prize_text : i \in getWarehousePrizes(rows, name)}

\* the rows a step appends to lottery_winners
CreatedWinners == SubSeq(lottery_winners', Len(lottery_winners) + 1, Len(lottery_winners'))

\* C11: when a distribution pass has k winners and the lottery's warehouse holds
\* s < k units, the pass is not aborted: every winner gets a record, the first s
\* records in draw order carry the text of a stocked item of the warehouse, the
\* other k - s carry the fallback text, and every row of the warehouse has stock
\* 0 afterwards.
ShortStockFallsBack ==
  [][\A h \in Handlers : DrawStep(h) =>
       LET lottery == handlers[h].lottery
           winners == handlers'[h].winners
           k == Len(winners)
           s == WarehouseStock(prize_warehouse, lottery.prize_warehouse)
       IN s < k =>
            /\ Len(CreatedWinners) = k
            /\ \A i \in 1..k :
                 /\ CreatedWinners[i].user_id = winners[i].user_id
                 /\ CreatedWinners[i].lottery_id = lottery.id
                 /\ i <= s => CreatedWinners[i].prize_text \in
                                StockedTexts(prize_warehouse, lottery.prize_warehouse)
                 /\ i > s => CreatedWinners[i].prize_text = FallbackPrizeText
            /\ WarehouseStock(prize_warehouse', lottery.prize_warehouse) = 0]_vars

\* one pass gave two winners one unit: the first holds the item's text, the
\* second the fallback text, and the warehouse is empty
ShortStockFallsBackWitness ==
  \E l \in lottery_config :
    /\ drawLog[l.id] = 1
    /\ Len(WinnersOf(lottery_winners, l.id)) = 2
    /\ WinnersOf(lottery_winners, l.id)[1].prize_text \in PrizeTexts
    /\ WinnersOf(lottery_winners, l.id)[2].prize_text = FallbackPrizeText
    /\ WinnersOf(lottery_winners, l.id)[1].user_id # WinnersOf(lottery_winners, l.id)[2].user_id
    /\ WarehouseStock(prize_warehouse, l.prize_warehouse) = 0

\* C12: an expiry sweep at time `now` sets to expired exactly the records that
\* are pending with expires_at < now; records that are sent, already expired, or
\* pending and not yet due stay as they are, and no field but status changes.
\* Stated of expireOldClaims on every reachable table and clock, and of every
\* step of the `expire` and `winners` commands.
SweepExpiresExactlyOverdue ==
  /\ [](LET after == expireOldClaims(lottery_winners, Now)
        IN /\ Len(after) = Len(lottery_winners)
           /\ \A i \in 1..Len(lottery_winners) :
                LET r == lottery_winners[i]
                IN IF r.status = PENDING /\ r.expires_at < Now
                   THEN after[i] = [r EXCEPT !.status = EXPIRED]
                   ELSE after[i] = r)
  /\ [][(/\ handlers' = handlers
         /\ Len(lottery_winners') = Len(lottery_winners)
         /\ lottery_winners' # lottery_winners)
        => \A i \in 1..Len(lottery_winners) :
             LET r == lottery_winners[i]
             IN IF r.status = PENDING /\ r.expires_at < Now
                THEN lottery_winners'[i] = [r EXCEPT !.status = EXPIRED]
                ELSE lottery_winners'[i] = r]_vars

\* after a sweep: an expired record next to a sent record that was due as well
\* and is still sent
SweepExpiresExactlyOverdueWitness ==
  \E i, j \in 1..Len(lottery_winners) :
    /\ lottery_winners[i].status = EXPIRED
    /\ lottery_winners[i].claimed_at = NULL
    /\ lottery_winners[j].status = SENT
    /\ lottery_winners[j].expires_at < Now

\* the lottery row with the given id, NoLottery when it was deleted
LotteryById(id) ==
  IF \E l \in lottery_config : l.id = id
  THEN CHOOSE l \in lottery_config : l.id = id
  ELSE NoLottery

\* C13: a winner whose notification failed keeps a pending record, and while
\* the record is pending the `claim` command naming the winner can be performed:
\* it finds the record's lottery through getActiveLottery.  Stated for records
\* of lotteries no handler is still working on (every notification was tried).
PendingWinnerClaimable ==
  \A i \in 1..Len(lottery_winners) :
    LET r == lottery_winners[i]
        l == LotteryById(r.lottery_id)
    IN (/\ r.status = PENDING
        /\ l # NoLottery
        /\ l.distribution_mode = AUTO_SEND
        /\ Quiescent(l.id))
       => getActiveLottery(l.chat_id).id = l.id

\* the records among s that carry the text of row r of the lottery's warehouse
BoundTo(s, rows, r, lottery) ==
  {i \in 1..Len(s) : /\ rows[r].warehouse_name = lottery.prize_warehouse
                     /\ s[i].prize_text = rows[r].prize_text}

\* C14: inventory consumption and WinnerRecord creation are coupled: in every
\* distribution pass, for every prize row, the units taken from the row equal
\* the number of records the pass persisted with that row's text; and a pass in
\* which an INSERT fails persists no record and takes no unit.
ConsumptionCoupledToRecords ==
  [][\A h \in Handlers :
       (/\ handlers[h].pc \in {"join_reply", "draw_confirm"}
        /\ handlers'[h].pc # handlers[h].pc)
       => /\ Len(prize_warehouse') = Len(prize_warehouse)
          /\ \A r \in 1..Len(prize_warehouse) :
               prize_warehouse[r].stock_count - prize_warehouse'[r].stock_count =
                 Cardinality(BoundTo(CreatedWinners, prize_warehouse, r, handlers[h].lottery))
          /\ handlers'[h].pc = "draw_failed" =>
               /\ lottery_winners' = lottery_winners
               /\ prize_warehouse' = prize_warehouse]_vars

\* a pass over two winners failed while the warehouse had stock: the handler is
\* in the catch, the lottery has no record and the stock is still there
ConsumptionCoupledToRecordsWitness ==
  \E h \in Handlers :
    /\ handlers[h].pc = "draw_failed"
    /\ Len(handlers[h].winners) = 2
    /\ WarehouseStock(prize_warehouse, handlers[h].lottery.prize_warehouse) = MaxStock
    /\ Len(WinnersOf(lottery_winners, handlers[h].lottery.id)) = 0

\* the lottery ids that were allotted and whose lottery_config row is gone
DeletedIds == {id \in 1..(nextLotteryId - 1) : LotteryById(id) = NoLottery}

\* no row of any of the three tables carries the lottery id
NoTraceOf(id) ==
  /\ LotteryById(id) = NoLottery
  /\ Len(getLotteryParticipants(lottery_participants, id)) = 0
  /\ Len(getLotteryWinners(lottery_winners, id)) = 0

\* C15: deletion cascades atomically and for good: in every state a deleted
\* lottery has no lottery_config, participant or winner row, and a lottery that
\* is deleted stays deleted whatever handler resumes afterwards.
DeletionCascades ==
  /\ [](\A id \in DeletedIds : NoTraceOf(id))
  /\ [][\A id \in DeletedIds : id \in DeletedIds']_vars

\* the lottery was deleted while a join handler that captured it is still
\* waiting for its validation to resolve
DeletionCascadesWitness ==
  \E h \in Handlers :
    /\ handlers[h].pc = "join_validate"
    /\ handlers[h].lottery.id \in DeletedIds
    /\ NoTraceOf(handlers[h].lottery.id)

\* C16: a Participant row is inserted only while the lottery's status is
\* active: whenever a step appends a row to lottery_participants, the lottery
\* of that row has status active when the step is taken.
AdmissionOnlyWhileActive ==
  [][Len(lottery_participants') > Len(lottery_participants)
     => LET p == lottery_participants'[Len(lottery_participants')]
        IN /\ LotteryById(p.lottery_id) # NoLottery
           /\ LotteryById(p.lottery_id).status = ACTIVE]_vars

\* handler h leaves the join path without having been admitted
AdmissionRejected(h) ==
  /\ handlers[h].pc \in {"join_sender", "join_validate"}
  /\ handlers'[h].pc = Idle.pc

\* C17: a rejected admission leaves no partial state: the step in which a join
\* handler gives up (no sender or a bot, Duplicate, Full, or the lottery is
\* gone) changes no Participant row, no lottery status, no WinnerRecord and no
\* prize stock.
RejectedAdmissionChangesNothing ==
  [][\A h \in Handlers :
       AdmissionRejected(h)
       => UNCHANGED <<lottery_participants, lottery_config, lottery_winners,
                      prize_warehouse>>]_vars

\* a join handler is about to commit for a user who is not yet a participant,
\* and the lottery it captured is active and already full
RejectedAdmissionChangesNothingWitness ==
  \E h \in Handlers :
    LET l == LotteryById(handlers[h].lottery.id)
    IN /\ handlers[h].pc = "join_validate"
       /\ l # NoLottery
       /\ l.status = ACTIVE
       /\ l.max_participants > 0
       /\ ~AlreadyParticipated(lottery_participants, l.id, handlers[h].user)
       /\ ParticipantCount(l.id) >= l.max_participants

\* handler h takes the capacity branch of line 2021 for its lottery
CapacityTrigger(h) ==
  /\ handlers[h].pc = "join_reply"
  /\ handlers'[h].pc # "join_reply"
  /\ capacityDraws'[handlers[h].lottery.id] # capacityDraws[handlers[h].lottery.id]

DrawClaimsBeforeAllocating ==
  \A l \in lottery_config :
    Len(getLotteryWinners(lottery_winners, l.id)) > 0 => l.status = COMPLETED

\* C20: the lottery lifecycle is one-way: the status of every lottery is active
\* or completed, and a lottery that is completed is, after any step, either
\* still completed or deleted, never active again.
LifecycleOneWay ==
  /\ [](\A l \in lottery_config : l.status \in {ACTIVE, COMPLETED})
  /\ [][\A l \in lottery_config :
          l.status = COMPLETED
          => \A m \in lottery_config' : m.id = l.id => m.status = COMPLETED]_vars

\* a lottery is completed and its draw has run a second time: the UPDATE was
\* executed again on a row that was already completed
LifecycleOneWayWitness ==
  \E l \in lottery_config :
    /\ l.status = COMPLETED
    /\ drawLog[l.id] >= 2
    /\ Quiescent(l.id)

\* the units a step takes from row r of prize_warehouse (negative: a restock),
\* and the records the step creates with the text of that row
UnitsTaken(r) == prize_warehouse[r].stock_count - prize_warehouse'[r].stock_count
CreatedWithTextOf(r) ==
  {i \in 1..Len(CreatedWinners) :
     CreatedWinners[i].prize_text = prize_warehouse[r].prize_text}

Stocked(rows, name) ==
  {i \in 1..Len(rows) : rows[i].warehouse_name = name /\ rows[i].stock_count > 0}

\* C22: getNextAvailablePrize(warehouse) returns none exactly when the warehouse
\* has no item with stock > 0; otherwise it returns an item of that warehouse
\* with stock > 0 whose order_index is the lowest among such items, the one
\* inserted first among equals.  (The order_index values of the rows of one
\* warehouse are pairwise distinct, so the selection is unique.)
NextAvailableIsLowestStocked ==
  \A name \in SelectionWarehouses :
    LET prize == getNextAvailablePrize(prize_warehouse, name)
        avail == Stocked(prize_warehouse, name)
    IN /\ prize = 0 <=> avail = {}
       /\ prize # 0 =>
            /\ prize \in 1..Len(prize_warehouse)
            /\ prize_warehouse[prize].warehouse_name = name
            /\ prize_warehouse[prize].stock_count > 0
            /\ \A j \in avail \ {prize} :
                 \/ prize_warehouse[prize].order_index < prize_warehouse[j].order_index
                 \/ /\ prize_warehouse[prize].order_index = prize_warehouse[j].order_index
                    /\ prize < j
       /\ \A i, j \in 1..Len(prize_warehouse) :
            (/\ i # j
             /\ prize_warehouse[i].warehouse_name = name
             /\ prize_warehouse[j].warehouse_name = name)
            => prize_warehouse[i].order_index # prize_warehouse[j].order_index

\* one warehouse whose first item is out of stock and whose second is selected,
\* while a stocked item of the other warehouse stands earlier in the table and
\* has a lower order_index
NextAvailableIsLowestStockedWitness ==
  \E name \in SelectionWarehouses :
    LET prize == getNextAvailablePrize(prize_warehouse, name)
    IN /\ prize # 0
       /\ prize_warehouse[prize].order_index = 2
       /\ \E i \in 1..Len(prize_warehouse) :
            /\ prize_warehouse[i].warehouse_name = name
            /\ prize_warehouse[i].order_index = 1
            /\ prize_warehouse[i].stock_count = 0
       /\ \E j \in 1..(prize - 1) :
            /\ prize_warehouse[j].warehouse_name # name
            /\ prize_warehouse[j].stock_count > 0
            /\ prize_warehouse[j].order_index = 1

\* the user has a WinnerRecord of the lottery
HasRecord(lotteryId, userId) ==
  \E j \in 1..Len(lottery_winners) :
    lottery_winners[j].lottery_id = lotteryId /\ lottery_winners[j].user_id = userId

\* every row of lottery_winners' that belongs to winner i of handler h is sent
WinnerSentAfter(h) ==
  \A j \in 1..Len(lottery_winners') :
    (/\ lottery_winners'[j].lottery_id = handlers[h].lottery.id
     /\ lottery_winners'[j].user_id = handlers[h].winners[handlers[h].i].user_id)
    => lottery_winners'[j].status = SENT

\* C23: one winner's notification failure does not stop the pass.  In autoSend
\* mode, whatever the outcome of a notification, the handler goes on to the
\* rate-limit timer and from there to the next winner in draw order that has a
\* WinnerRecord, or past the last one to the result message;
\* a notification leaves the table unchanged (it failed) or the winner's record
\* sent; the result message is reached only when every winner was attempted;
\* and the step after the pin marks the lottery completed.
NotificationFailureDoesNotStopPass ==
  /\ [](\A h \in Handlers :
          (/\ handlers[h].pc \in {"draw_announce", "draw_pin"}
           /\ handlers[h].lottery.distribution_mode = AUTO_SEND)
          => handlers[h].i = Len(handlers[h].winners) + 1)
  /\ [][\A h \in Handlers :
          /\ (handlers[h].pc = "draw_send" /\ handlers'[h] # handlers[h])
             => /\ handlers'[h] = [handlers[h] EXCEPT !.pc = "draw_ratelimit"]
                /\ lottery_winners' = lottery_winners \/ WinnerSentAfter(h)
          /\ (handlers[h].pc = "draw_ratelimit" /\ handlers'[h] # handlers[h])
             => /\ handlers'[h].i \in (handlers[h].i + 1)..(Len(handlers[h].winners) + 1)
                /\ \A k \in (handlers[h].i + 1)..(handlers'[h].i - 1) :
                     ~HasRecord(handlers[h].lottery.id, handlers[h].winners[k].user_id)
                /\ handlers'[h].i <= Len(handlers[h].winners)
                     => HasRecord(handlers[h].lottery.id,
                                  handlers[h].winners[handlers'[h].i].user_id)
                /\ handlers'[h].pc = IF handlers'[h].i <= Len(handlers[h].winners)
                                     THEN "draw_send" ELSE "draw_announce"
          /\ (handlers[h].pc = "draw_pin" /\ handlers'[h] # handlers[h])
             => \A l \in lottery_config' :
                  l.id = handlers[h].lottery.id => l.status = COMPLETED]_vars

\* a lottery completed by a draw of two winners in which the first winner's
\* notification failed (the record is still pending, unclaimed) and the second
\* winner's succeeded
NotificationFailureDoesNotStopPassWitness ==
  \E l \in lottery_config :
    /\ l.status = COMPLETED
    /\ Quiescent(l.id)
    /\ Len(WinnersOf(lottery_winners, l.id)) = 2
    /\ WinnersOf(lottery_winners, l.id)[1].status = PENDING
    /\ WinnersOf(lottery_winners, l.id)[2].status = SENT
    /\ WinnersOf(lottery_winners, l.id)[1].user_id # WinnersOf(lottery_winners, l.id)[2].user_id

\* C24: a failure while processing one winner of a distribution pass does not
\* abort the others: a pass over k winners in which at most one winner's
\* processing fails creates at least k - 1 WinnerRecords.
FailedWinnerDoesNotAbortPass ==
  [][\A h \in Handlers :
       (/\ handlers[h].pc \in {"join_reply", "draw_confirm"}
        /\ handlers'[h].pc \in {"draw_send", "draw_announce", "draw_failed"})
       => Len(CreatedWinners) >= Len(handlers'[h].winners) - 1]_vars

\* C25: a rejected admission carries its specific reason: whenever a join
\* handler is about to commit and the admission is rejected, the value returned
\* to the handler is the reason of the rejection (full or not found, duplicate),
\* so different reasons give different values.
RejectionCarriesReason ==
  \A h \in Handlers :
    handlers[h].pc = "join_validate"
    => LET error == addParticipantError(lottery_participants, handlers[h].lottery.id,
                                        handlers[h].user)
           returned == addParticipantReturned(lottery_participants, handlers[h].lottery.id,
                                              handlers[h].user)
       IN error # "" => returned = error

\* lottery id is active and has as many participants as max_participants
FullAndActive(id) ==
  \E l \in lottery_config :
    /\ l.id = id
    /\ l.status = ACTIVE
    /\ l.max_participants >= 1
    /\ ParticipantCount(id) >= l.max_participants

\* lottery id is completed, or its row is gone
CompletedOrDeleted(id) ==
  \/ \E l \in lottery_config : l.id = id /\ l.status = COMPLETED
  \/ id < nextLotteryId /\ LotteryById(id) = NoLottery

\* C26: capacity reached leads to a draw: when every suspended handler
\* eventually resumes, a lottery that is active with max_participants
\* participants is eventually completed or deleted.
CapacityLeadsToCompletion ==
  \A id \in LotteryIds : FullAndActive(id) ~> CompletedOrDeleted(id)

\* the lookups validateUserConditions made for handler h: the avatar lookup when
\* the lottery requires an avatar; the channel lookup when it requires a channel
\* and the avatar and username checks before it let the user through
AvatarConsulted(h) == handlers[h].lottery.require_avatar
ChannelConsulted(h) ==
  /\ handlers[h].lottery.required_channel # ""
  /\ ~(handlers[h].lottery.require_avatar /\ handlers[h].avatar # "photo")
  /\ ~(handlers[h].lottery.require_username /\ ~SenderHasUsername(handlers[h].user))

WinnerRecordCreatedPending ==
  /\ [][\A i \in 1..Len(CreatedWinners) :
          LET r == CreatedWinners[i]
              l == LotteryById(r.lottery_id)
          IN /\ r.status = PENDING
             /\ r.claimed_at = NULL
             /\ r.assigned_at = Now
             /\ l # NoLottery
             /\ r.expires_at = r.assigned_at + l.claim_timeout * 1000
             /\ r.expires_at >= r.assigned_at]_vars
  /\ [](\A i \in 1..Len(lottery_winners) :
          LET r == lottery_winners[i]
          IN (r.status = PENDING /\ Now <= r.expires_at)
             => expireOldClaims(lottery_winners, Now)[i] = r)

\* a sweep ran a day after a record was created: the record, still pending, has
\* expired in the sweep (its time was up by then, not before)
WinnerRecordCreatedPendingWitness ==
  \E i \in 1..Len(lottery_winners) :
    /\ lottery_winners[i].status = EXPIRED
    /\ lottery_winners[i].assigned_at = 0
    /\ lottery_winners[i].expires_at = DAY_SECONDS * 1000
    /\ Now > lottery_winners[i].expires_at

\* the row, the participants and the winner records of lottery id are the same
\* after the step
LotteryUntouched(id) ==
  /\ {l \in lottery_config' : l.id = id} = {l \in lottery_config : l.id = id}
  /\ getLotteryParticipants(lottery_participants', id)
       = getLotteryParticipants(lottery_participants, id)
  /\ getLotteryWinners(lottery_winners', id) = getLotteryWinners(lottery_winners, id)

\* C30: distinct lotteries and distinct prize items are independent: a step of
\* a handler that joins, draws, deletes or claims on lottery A leaves the row,
\* the participants and the winner records of every other lottery as they are,
\* and consumePrize on one row of prize_warehouse leaves every other row, and
\* the number of rows, as they are.
LotteriesAndItemsIndependent ==
  /\ [][\A h \in Handlers :
          (handlers[h].pc # "idle" /\ handlers'[h] # handlers[h])
          => \A id \in LotteryIds \ {handlers[h].lottery.id} : LotteryUntouched(id)]_vars
  /\ [](\A id \in 1..(Len(prize_warehouse) + 1) :
          LET rows == consumePrize(prize_warehouse, id)
          IN /\ Len(rows) = Len(prize_warehouse)
             /\ \A j \in 1..Len(prize_warehouse) : j # id => rows[j] = prize_warehouse[j])

\* the chat's second lottery was drawn and has a winner record, next to the
\* first, completed lottery, which still has its participant and its record
LotteriesAndItemsIndependentWitness ==
  /\ Len(getLotteryParticipants(lottery_participants, 1)) > 0
  /\ Len(getLotteryWinners(lottery_winners, 1)) > 0
  /\ Len(getLotteryWinners(lottery_winners, 2)) > 0
  /\ \E l \in lottery_config : l.id = 1 /\ l.status = COMPLETED
  /\ Len(prize_warehouse) >= 2


\* C31: every lottery that `create` stores has max_participants > 0 and
\* winner_count > 0 (a request with a zero or negative count stores nothing).
CreateStoresPositiveCounts ==
  \A l \in lottery_config : l.max_participants > 0 /\ l.winner_count > 0


\* the lottery's row is removed by the step
Deleting(id) == LotteryById(id) # NoLottery /\ LotteryById(id)' = NoLottery

\* the records the step does not cascade away, in table order
SurvivingRecords == SelectSeq(lottery_winners, LAMBDA w : ~Deleting(w.lottery_id))

\* before and after differ as a claim/send action (status sent, claimed_at now)
\* or an expiry sweep (an overdue pending record becomes expired) changes a record
LifecycleChange(before, after) ==
  \/ after = [before EXCEPT !.status = SENT, !.claimed_at = Now]
  \/ /\ before.status = PENDING /\ before.expires_at < Now
     /\ after = [before EXCEPT !.status = EXPIRED]

\* C32: WinnerRecords change only through their lifecycle: in every step each
\* existing record whose lottery is not deleted by the step is still in the
\* table, at its place among the surviving records, and is either unchanged or
\* changed as a claim/send action or an expiry sweep changes it; no command
\* (create, draw, status, list, prize management, init) removes it.
WinnerRecordsChangeOnlyByLifecycle ==
  [][/\ Len(lottery_winners') >= Len(SurvivingRecords)
     /\ \A i \in 1..Len(SurvivingRecords) :
          i <= Len(lottery_winners')
          => \/ lottery_winners'[i] = SurvivingRecords[i]
             \/ LifecycleChange(SurvivingRecords[i], lottery_winners'[i])]_vars


\* s is the beginning of t
IsPrefix(s, t) == Len(s) <= Len(t) /\ SubSeq(t, 1, Len(s)) = s

\* C33: the participant ledger is append-only per lottery: in every step that
\* does not delete the lottery, the lottery's participant rows before the step
\* are, unmodified and in order, the beginning of its rows after the step, so
\* between creation and deletion of a lottery its participant set only grows.
ParticipantLedgerAppendOnly ==
  [][\A id \in LotteryIds :
       ~Deleting(id)
       => IsPrefix(getLotteryParticipants(lottery_participants, id),
                   getLotteryParticipants(lottery_participants', id))]_vars

\* a lottery whose ledger grew to two rows has been drawn and completed, and
\* both rows are still there
ParticipantLedgerAppendOnlyWitness ==
  \E l \in lottery_config :
    /\ l.status = COMPLETED
    /\ Len(getLotteryParticipants(lottery_participants, l.id)) = 2
    /\ Len(getLotteryWinners(lottery_winners, l.id)) > 0


\* the rows of lottery_config, lottery_participants and lottery_winners stay
StoredLotteriesUnchanged ==
  UNCHANGED <<lottery_config, lottery_participants, lottery_winners>>

ClaimedAtIffSent ==
  /\ [](\A i \in 1..Len(lottery_winners) :
          (lottery_winners[i].claimed_at # NULL) <=> (lottery_winners[i].status = SENT))
  /\ [][\A i \in 1..Len(lottery_winners) :
          /\ i <= Len(lottery_winners')
          /\ lottery_winners'[i].status = EXPIRED
          /\ lottery_winners[i].status # EXPIRED
          => lottery_winners'[i].claimed_at = lottery_winners[i].claimed_at]_vars

\* a record was marked sent with its claimed_at set, its claim window has since
\* run out, and it is still sent
ClaimedAtIffSentWitness ==
  \E i \in 1..Len(lottery_winners) :
    /\ lottery_winners[i].status = SENT
    /\ lottery_winners[i].claimed_at # NULL
    /\ lottery_winners[i].expires_at < Now


\* C36: within one warehouse no two prize items with stock > 0 share an
\* order_index, after any sequence of createPrizeWarehouse, addPrizeToWarehouse,
\* consumePrize and clearWarehouse; a row added for a new prize text has an
\* order_index strictly greater than that of every row the warehouse had, and
\* adding an existing text changes nothing but that row's stock, which grows.
OrderIndexUniqueAmongStocked ==
  /\ [](\A i, j \in 1..Len(prize_warehouse) :
          /\ i # j
          /\ prize_warehouse[i].warehouse_name = prize_warehouse[j].warehouse_name
          /\ prize_warehouse[i].stock_count > 0
          /\ prize_warehouse[j].stock_count > 0
          => prize_warehouse[i].order_index # prize_warehouse[j].order_index)
  /\ [][Len(prize_warehouse') = Len(prize_warehouse) + 1
        /\ prize_warehouse'[Len(prize_warehouse')].prize_text # PlaceholderText
        => \A i \in 1..Len(prize_warehouse) :
             /\ prize_warehouse'[i] = prize_warehouse[i]
             /\ prize_warehouse[i].warehouse_name
                  = prize_warehouse'[Len(prize_warehouse')].warehouse_name
                => prize_warehouse[i].order_index
                     < prize_warehouse'[Len(prize_warehouse')].order_index]_vars
  /\ [][\A i \in 1..Len(prize_warehouse) :
          /\ Len(prize_warehouse') = Len(prize_warehouse)
          /\ prize_warehouse'[i].stock_count > prize_warehouse[i].stock_count
          => prize_warehouse' = [prize_warehouse EXCEPT
                                   ![i].stock_count = prize_warehouse'[i].stock_count]]_vars

\* a warehouse holds two stocked items, the first added with order_index 1 and
\* its stock at MaxStock, the second added after it with order_index 2
OrderIndexUniqueAmongStockedWitness ==
  \E i, j \in 1..Len(prize_warehouse) :
    /\ prize_warehouse[i].warehouse_name = prize_warehouse[j].warehouse_name
    /\ prize_warehouse[i].order_index = 1 /\ prize_warehouse[i].stock_count = MaxStock
    /\ prize_warehouse[j].order_index = 2 /\ prize_warehouse[j].stock_count > 0


\* C37: every WinnerRecord a draw creates carries either the fallback text or
\* the text of a row that, when the pass began, belonged to the warehouse the
\* lottery is bound to and had stock > 0, and the pass takes no unit from a row
\* of another warehouse; the empty-text row createPrizeWarehouse inserts always
\* has stock 0 and its text is on no WinnerRecord.
AssignedPrizeFromBoundWarehouse ==
  /\ [][\A h \in Handlers : DrawStep(h) =>
          /\ \A i \in 1..Len(CreatedWinners) :
               \/ CreatedWinners[i].prize_text = FallbackPrizeText
               \/ CreatedWinners[i].prize_text \in
                    StockedTexts(prize_warehouse, handlers[h].lottery.prize_warehouse)
          /\ \A r \in 1..Len(prize_warehouse) :
               prize_warehouse[r].warehouse_name # handlers[h].lottery.prize_warehouse
               => prize_warehouse'[r] = prize_warehouse[r]]_vars
  /\ [](\A r \in 1..Len(prize_warehouse) :
          prize_warehouse[r].prize_text = PlaceholderText
          => prize_warehouse[r].stock_count = 0)
  /\ [](\A i \in 1..Len(lottery_winners) :
          lottery_winners[i].prize_text # PlaceholderText)

\* a lottery bound to a warehouse that holds only its empty-text row was drawn
\* while the other warehouse had a stocked item: the record carries the
\* fallback text and the other warehouse kept its stock
AssignedPrizeFromBoundWarehouseWitness ==
  \E l \in lottery_config :
    /\ l.status = COMPLETED
    /\ StockedTexts(prize_warehouse, l.prize_warehouse) = {}
    /\ \E r \in 1..Len(prize_warehouse) :
         /\ prize_warehouse[r].warehouse_name = l.prize_warehouse
         /\ prize_warehouse[r].prize_text = PlaceholderText
    /\ \E r \in 1..Len(prize_warehouse) :
         /\ prize_warehouse[r].warehouse_name # l.prize_warehouse
         /\ prize_warehouse[r].stock_count > 0
    /\ \E i \in 1..Len(lottery_winners) :
         /\ lottery_winners[i].lottery_id = l.id
         /\ lottery_winners[i].prize_text = FallbackPrizeText

====
